---- MODULE Spec2Model ----
(***************************************************************************)
(* Rational Fish (streamlit_app.py): the RationalFunction analyzer, its    *)
(* evaluator and formatter, and create_questions.                          *)
(*                                                                         *)
(* Python numbers are modelled with their type, because f-strings print    *)
(* an int and a float differently ("0" against "0.0") and the quiz         *)
(* compares answers as strings.  A number is a record                      *)
(*     [ty, n, d, neg]   value n/d in lowest terms, d > 0,                 *)
(* ty "int" or "float", neg the IEEE sign bit (TRUE also for -0.0).        *)
(* Inputs are restricted to coefficients for which every float the         *)
(* analyzer prints is a binary fraction, so that float arithmetic is       *)
(* exact and str() prints the value in full.                               *)
(***************************************************************************)
EXTENDS Integers, Sequences, FiniteSets, TLC

VARIABLES fn, result, out, game

vars == <<fn, result, out, game>>

(* ------------------------------ bounds --------------------------------- *)

MaxNumLen == 3

MaxDenLen == 3

MaxNumCoef == 1

MaxDenCoef == 2

MaxList == 1

MaxFmtLen == 3

MaxFmtCoef == 2

MaxLevel == 3

MaxScore == 400

MaxBelowZero == 1

(* ------------------------- integer helpers ----------------------------- *)

Abs(k) == IF k < 0 THEN -k ELSE k

Sgn(k) == IF k < 0 THEN -1 ELSE IF k > 0 THEN 1 ELSE 0

Max(a, b) == IF a >= b THEN a ELSE b

RECURSIVE GCD(_, _)
GCD(a, b) == IF b = 0 THEN a ELSE GCD(b, a % b)

IsPow2(k) == k \in {1, 2, 4, 8, 16}

IsSquare(k) == \E r \in 0..k : r * r = k

ISqrt(k) == CHOOSE r \in 0..k : r * r = k

(* --------------------------- Python numbers ---------------------------- *)

None == [ty |-> "None", n |-> 0, d |-> 1, neg |-> FALSE]

Raise(e) == [ty |-> "raise", n |-> 0, d |-> 1, neg |-> FALSE, error |-> e]

PyInt(k) == [ty |-> "int", n |-> k, d |-> 1, neg |-> k < 0]

\* the float p/q (q # 0); negzero is the sign bit to use when p = 0
MkFloat(p, q, negzero) ==
    LET g == GCD(Abs(p), Abs(q))
        s == IF q < 0 THEN -1 ELSE 1
    IN  [ty |-> "float", n |-> (s * p) \div g, d |-> Abs(q) \div g,
         neg |-> IF p = 0 THEN negzero ELSE (p < 0) # (q < 0)]

\* a / b  (true division: always a float; ZeroDivisionError when b == 0)
TrueDiv(a, b) ==
    IF b.n = 0 THEN Raise("ZeroDivisionError")
    ELSE MkFloat(a.n * b.d, a.d * b.n, a.neg # b.neg)

\* a + b  (int + int is an int, anything else a float; x + (-x) is +0.0)
Add(a, b) ==
    IF a.ty = "int" /\ b.ty = "int" THEN PyInt(a.n + b.n)
    ELSE MkFloat(a.n * b.d + b.n * a.d, a.d * b.d, a.neg /\ b.neg)

\* -a
Neg(a) ==
    IF a.ty = "int" THEN PyInt(-a.n)
    ELSE [a EXCEPT !.n = -a.n, !.neg = ~a.neg]

\* a - b
Sub(a, b) == Add(a, Neg(b))

\* discriminant ** 0.5 for a perfect square discriminant >= 0
Pow05(k) == MkFloat(ISqrt(k), 1, FALSE)

\* a < b on values (-0.0 == 0.0)
Less(a, b) == a.n * b.d < b.n * a.d

\* sorted(pair): stable, swaps only when the second is smaller
sorted(s) == IF Len(s) = 2 /\ Less(s[2], s[1]) THEN <<s[2], s[1]>> ELSE s

(* ------------------------------ str() ---------------------------------- *)

\* decimal digits of rem/d after the point (rem < d); floats of the model
\* are binary fractions, whose expansion ends
RECURSIVE FracDigits(_, _, _)
FracDigits(rem, d, fuel) ==
    IF rem = 0 \/ fuel = 0 THEN ""
    ELSE ToString((rem * 10) \div d) \o FracDigits((rem * 10) % d, d, fuel - 1)

\* what an f-string prints for {v}
PyStr(v) ==
    IF v.ty = "int" THEN ToString(v.n)
    ELSE LET m == Abs(v.n)
             frac == FracDigits(m % v.d, v.d, 17)
         IN  (IF v.neg THEN "-" ELSE "") \o ToString(m \div v.d) \o "."
                 \o (IF frac = "" THEN "0" ELSE frac)

(* --------------------------- RationalFunction -------------------------- *)

\* slip: the root with -sqrt first
find_vertical_asymptotes_MinusFirst(numerator, denominator) ==
    IF Len(denominator) = 2
    THEN IF denominator[1] # 0
         THEN << TrueDiv(PyInt(-denominator[2]), PyInt(denominator[1])) >>
         ELSE << >>
    ELSE IF Len(denominator) = 3
    THEN LET a == denominator[1]
             b == denominator[2]
             c == denominator[3]
             discriminant == b * b - 4 * a * c
         IN  IF a # 0 /\ discriminant >= 0
             THEN LET sqrt_disc == Pow05(discriminant)
                  IN  << TrueDiv(Sub(PyInt(-b), sqrt_disc), PyInt(2 * a)),
                         TrueDiv(Add(PyInt(-b), sqrt_disc), PyInt(2 * a)) >>
             ELSE << >>
    ELSE << >>

\* slip: divides by a where the formula has 2a
find_vertical_asymptotes_HalfDenominator(numerator, denominator) ==
    IF Len(denominator) = 2
    THEN IF denominator[1] # 0
         THEN << TrueDiv(PyInt(-denominator[2]), PyInt(denominator[1])) >>
         ELSE << >>
    ELSE IF Len(denominator) = 3
    THEN LET a == denominator[1]
             b == denominator[2]
             c == denominator[3]
             discriminant == b * b - 4 * a * c
         IN  IF a # 0 /\ discriminant >= 0
             THEN LET sqrt_disc == Pow05(discriminant)
                  IN  << TrueDiv(Add(PyInt(-b), sqrt_disc), PyInt(a)),
                         TrueDiv(Sub(PyInt(-b), sqrt_disc), PyInt(a)) >>
             ELSE << >>
    ELSE << >>

find_vertical_asymptotes(numerator, denominator) ==
    IF Len(denominator) = 2
    THEN IF denominator[1] # 0
         THEN << TrueDiv(PyInt(-denominator[2]), PyInt(denominator[1])) >>
         ELSE << >>
    ELSE IF Len(denominator) = 3
    THEN LET a == denominator[1]
             b == denominator[2]
             c == denominator[3]
             discriminant == b * b - 4 * a * c
         IN  IF a # 0 /\ discriminant >= 0
             THEN LET sqrt_disc == Pow05(discriminant)
                  IN  << TrueDiv(Add(PyInt(-b), sqrt_disc), PyInt(2 * a)),
                         TrueDiv(Sub(PyInt(-b), sqrt_disc), PyInt(2 * a)) >>
             ELSE << >>
    ELSE << >>

\* slip: num_degree <= den_degree in the first test
find_horizontal_asymptote_OffByOne(numerator, denominator) ==
    LET num_degree == Len(numerator) - 1
        den_degree == Len(denominator) - 1
    IN  IF num_degree <= den_degree THEN PyInt(0)
        ELSE IF num_degree = den_degree
        THEN TrueDiv(PyInt(numerator[1]), PyInt(denominator[1]))
        ELSE None

find_horizontal_asymptote(numerator, denominator) ==
    LET num_degree == Len(numerator) - 1
        den_degree == Len(denominator) - 1
    IN  IF num_degree < den_degree THEN PyInt(0)
        ELSE IF num_degree = den_degree
        THEN TrueDiv(PyInt(numerator[1]), PyInt(denominator[1]))
        ELSE None

find_x_intercepts(numerator, denominator) ==
    IF Len(numerator) = 2 /\ numerator[1] # 0
    THEN << TrueDiv(PyInt(-numerator[2]), PyInt(numerator[1])) >>
    ELSE << >>

find_y_intercept(numerator, denominator) ==
    IF denominator[Len(denominator)] # 0
    THEN TrueDiv(PyInt(numerator[Len(numerator)]),
                 PyInt(denominator[Len(denominator)]))
    ELSE None

\* __init__: the object exists only when no analyzer call raised
RationalFunction(numerator, denominator) ==
    LET va == find_vertical_asymptotes(numerator, denominator)
        ha == find_horizontal_asymptote(numerator, denominator)
        xi == find_x_intercepts(numerator, denominator)
        yi == find_y_intercept(numerator, denominator)
    IN  IF ha.ty = "raise"
        THEN [ok |-> FALSE, error |-> ha.error,
              numerator |-> numerator, denominator |-> denominator,
              name |-> "f(x)",
              vertical_asymptotes |-> << >>, horizontal_asymptote |-> None,
              x_intercepts |-> << >>, y_intercept |-> None]
        ELSE [ok |-> TRUE, error |-> "",
              numerator |-> numerator, denominator |-> denominator,
              name |-> "f(x)",
              vertical_asymptotes |-> va, horizontal_asymptote |-> ha,
              x_intercepts |-> xi, y_intercept |-> yi]

(* ------------------------------ evaluate ------------------------------- *)
(* The values evaluate works on.  An argument x is the float 1e200         *)
(* (huge), or r + t * 2^-40 for small integers r and t: an exact root r of *)
(* the denominator when t = 0, a float right next to it otherwise.  A      *)
(* value is the vector of its integer coefficients on the scale            *)
(*     1e200, 1, e, e^2, ...        with e = 2^-40,                        *)
(* index 1 holding the coefficient of 1e200 and index k + 2 that of e^k.   *)
(* A 53-bit float holds two neighbouring orders of that scale and loses    *)
(* whatever lies below them (Round), after every arithmetic operation.     *)

VLen == Max(MaxNumLen, MaxDenLen) + 1

Orders == 1..VLen

\* a value as a tuple of VLen coefficients
Vec(f) == SubSeq(f, 1, VLen)

Zero == Vec([i \in Orders |-> 0])

Unit(i, c) == Vec([j \in Orders |-> IF j = i THEN c ELSE 0])

\* index of the leading (largest) non-zero order, 0 for the value zero
Lead(v) ==
    IF \A i \in Orders : v[i] = 0 THEN 0
    ELSE CHOOSE i \in Orders : v[i] # 0 /\ \A j \in 1..(i - 1) : v[j] = 0

\* -1, 0 or 1
Sign(v) == IF Lead(v) = 0 THEN 0 ELSE Sgn(v[Lead(v)])

Round(v) ==
    LET k == Lead(v)
    IN  IF k = 0 THEN v
        ELSE IF k = 1 THEN Unit(1, v[1])
        ELSE Vec([i \in Orders |-> IF i \in {k, k + 1} THEN v[i] ELSE 0])

VAdd(a, b) == Round(Vec([i \in Orders |-> a[i] + b[i]]))

VScale(c, v) == Round(Vec([i \in Orders |-> c * v[i]]))

RECURSIVE Conv(_, _, _, _)
Conv(a, b, i, j) ==
    IF j > i THEN 0 ELSE a[j] * b[i - j + 2] + Conv(a, b, i, j + 1)

\* product of two values without a 1e200 part
VMul(a, b) ==
    Round(Vec([i \in Orders |-> IF i = 1 THEN 0 ELSE Conv(a, b, i, 2)]))

XVal(x) ==
    IF x.huge THEN Unit(1, 1)
    ELSE Vec([i \in Orders |-> IF i = 2 THEN x.r ELSE IF i = 3 THEN x.t ELSE 0])

\* x ** k, for k <= 1 when x is huge
RECURSIVE Pow(_, _)
Pow(x, k) ==
    IF k = 0 THEN Unit(2, 1)
    ELSE IF k = 1 THEN XVal(x)
    ELSE VMul(Pow(x, k - 1), XVal(x))

\* 1e200 ** 2 is out of the float range: float.__pow__ raises OverflowError
PowOverflows(coeffs, x) == x.huge /\ Len(coeffs) >= 3

\* sum(coef * (x ** (len(coeffs) - 1 - i)) for i, coef in enumerate(coeffs))
RECURSIVE SumTerms(_, _, _)
SumTerms(coeffs, x, i) ==
    IF i = 0 THEN Zero
    ELSE VAdd(SumTerms(coeffs, x, i - 1),
              VScale(coeffs[i], Pow(x, Len(coeffs) - i)))

PolyVal(coeffs, x) == SumTerms(coeffs, x, Len(coeffs))

\* the largest k with k * 2^-40 < 1e-10
TinyLimit == 109

\* abs(v) < 1e-10
BelowThreshold(v) == v[1] = 0 /\ v[2] = 0 /\ Abs(v[3]) <= TinyLimit

RECURSIVE GCDAll(_, _)
GCDAll(v, i) == IF i = 0 THEN 0 ELSE GCD(Abs(v[i]), GCDAll(v, i - 1))

Inf == [kind |-> "inf", num |-> Zero, den |-> Zero, error |-> ""]

MinusInf == [kind |-> "-inf", num |-> Zero, den |-> Zero, error |-> ""]

Raised(e) == [kind |-> "raise", num |-> Zero, den |-> Zero, error |-> e]

\* num_val / den_val as a fraction in lowest terms with a positive denominator
Quotient(num_val, den_val) ==
    LET g == GCD(GCDAll(num_val, VLen), GCDAll(den_val, VLen))
        s == Sign(den_val)
    IN  [kind |-> "value",
         num |-> Vec([i \in Orders |-> (s * num_val[i]) \div g]),
         den |-> Vec([i \in Orders |-> (s * den_val[i]) \div g]),
         error |-> ""]

\* evaluate(x) for a scalar x, lines 119-124
evaluate(function, x) ==
    IF PowOverflows(function.numerator, x)
           \/ PowOverflows(function.denominator, x)
    THEN Raised("OverflowError")
    ELSE LET num_val == PolyVal(function.numerator, x)
             den_val == PolyVal(function.denominator, x)
         IN  IF BelowThreshold(den_val)
             THEN IF Sign(den_val) > 0 THEN Inf ELSE MinusInf
             ELSE Quotient(num_val, den_val)

\* evaluate(x) for a list x, lines 116-117
evaluate_list(function, xs) ==
    IF \E i \in 1..Len(xs) : evaluate(function, xs[i]).kind = "raise"
    THEN Raised("OverflowError")
    ELSE [kind |-> "list",
          items |-> [i \in 1..Len(xs) |-> evaluate(function, xs[i])]]

(* --------------------------- format_polynomial ------------------------- *)

\* str(int(coef)) if coef == int(coef) else str(coef), for the int coef
CoefStr(coef) == ToString(coef)

\* lines 140-155: the term of coefficient coef # 0 and the given power
Term(coef, power) ==
    IF power = 0 THEN CoefStr(coef)
    ELSE IF power = 1
    THEN IF coef = 1 THEN "x"
         ELSE IF coef = -1 THEN "-x"
         ELSE CoefStr(coef) \o "x"
    ELSE IF coef = 1 THEN "x^" \o ToString(power)
         ELSE IF coef = -1 THEN "-x^" \o ToString(power)
         ELSE CoefStr(coef) \o "x^" \o ToString(power)

\* lines 134-155: the terms of coeffs[i..], zero coefficients skipped
RECURSIVE Terms(_, _)
Terms(coeffs, i) ==
    IF i > Len(coeffs) THEN << >>
    ELSE IF coeffs[i] = 0 THEN Terms(coeffs, i + 1)
    ELSE << Term(coeffs[i], Len(coeffs) - i) >> \o Terms(coeffs, i + 1)

\* slip: every term joined with " + ", its sign left in place
RECURSIVE Join_AlwaysPlus(_, _, _)
Join_AlwaysPlus(acc, terms, i) ==
    IF i > Len(terms) THEN acc
    ELSE Join_AlwaysPlus(acc \o " + " \o terms[i], terms, i + 1)

\* lines 160-165: result += " - " + term[1:]  or  " + " + term
RECURSIVE Join(_, _, _)
Join(acc, terms, i) ==
    IF i > Len(terms) THEN acc
    ELSE IF SubSeq(terms[i], 1, 1) = "-"
    THEN Join(acc \o " - " \o SubSeq(terms[i], 2, Len(terms[i])), terms, i + 1)
    ELSE Join(acc \o " + " \o terms[i], terms, i + 1)

format_polynomial(coeffs) ==
    IF coeffs = << >> THEN "0"
    ELSE LET terms == Terms(coeffs, 1)
         IN  IF terms = << >> THEN "0"
             ELSE Join(terms[1], terms, 2)

get_equation(function) ==
    "(" \o format_polynomial(function.numerator) \o ") / ("
        \o format_polynomial(function.denominator) \o ")"

(* ------------------------- plot_rational_function ---------------------- *)

IntX(k) == [huge |-> FALSE, r |-> k, t |-> 0]

\* the end points of the four x_ranges that are whole numbers
PlotSamples == << IntX(-10), IntX(-5), IntX(5), IntX(10) >>

\* abs(y) < 100 for a returned y
AbsBelow100(y) ==
    /\ y.kind = "value"
    /\ LET an == Vec([i \in Orders |-> Sign(y.num) * y.num[i]])
           ad == Vec([i \in Orders |-> Sign(y.den) * y.den[i]])
       IN  Sign(Vec([i \in Orders |-> 100 * ad[i] - an[i]])) > 0

\* -10 <= v <= 10
InWindow(v) == -10 * v.d <= v.n /\ v.n <= 10 * v.d

\* the subsequence of s whose values lie in the plot window
RECURSIVE Windowed(_, _)
Windowed(s, i) ==
    IF i > Len(s) THEN << >>
    ELSE IF InWindow(s[i]) THEN << s[i] >> \o Windowed(s, i + 1)
    ELSE Windowed(s, i + 1)

plot_rational_function(function) ==
    [y_vals |-> [i \in 1..Len(PlotSamples) |->
                    LET y == evaluate(function, PlotSamples[i])
                    IN  IF AbsBelow100(y) THEN y ELSE Raised("None")],
     title |-> "Graph of " \o function.name,
     vlines |-> LET w == Windowed(function.vertical_asymptotes, 1)
                IN  [i \in 1..Len(w) |-> "x = " \o PyStr(w[i])],
     hline |-> IF function.horizontal_asymptote # None
               THEN "y = " \o PyStr(function.horizontal_asymptote)
               ELSE "",
     y_marker |-> IF function.y_intercept # None
                     /\ function.y_intercept.n < 100 * function.y_intercept.d
                     /\ -function.y_intercept.n < 100 * function.y_intercept.d
                  THEN function.y_intercept ELSE None,
     x_markers |-> Windowed(function.x_intercepts, 1)]

(* ---------------------------- create_questions ------------------------ *)

Question(q_type, question_text, options, correct_answer, explanation, points) ==
    [type |-> q_type, question_text |-> question_text, options |-> options,
     correct_answer |-> correct_answer, explanation |-> explanation,
     points |-> points]

\* lines 224-244: the vertical asymptote question
VerticalQuestion(function) ==
    IF function.vertical_asymptotes = << >> THEN << >>
    ELSE LET va == function.vertical_asymptotes[1]
         IN  IF Len(function.vertical_asymptotes) = 1
             THEN << Question("vertical_asymptote",
                       "What is the vertical asymptote of " \o function.name \o "?",
                       << "x = " \o PyStr(va),
                          "x = " \o PyStr(Add(va, PyInt(1))),
                          "y = " \o PyStr(va),
                          "No vertical asymptote" >>,
                       "x = " \o PyStr(va),
                       "The vertical asymptote occurs where the denominator equals zero.",
                       100) >>
             ELSE LET va1 == sorted(function.vertical_asymptotes)[1]
                      va2 == sorted(function.vertical_asymptotes)[2]
                  IN  << Question("vertical_asymptote",
                            "What are the vertical asymptotes of " \o function.name \o "?",
                            << "x = " \o PyStr(va1) \o " and x = " \o PyStr(va2),
                               "x = " \o PyStr(va1),
                               "x = " \o PyStr(va2),
                               "No vertical asymptotes" >>,
                            "x = " \o PyStr(va1) \o " and x = " \o PyStr(va2),
                            "The vertical asymptotes occur where the denominator equals zero.",
                            150) >>

\* slip: "if function.horizontal_asymptote:" takes the asymptote 0 for none
HorizontalQuestion_Truthy(function) ==
    IF function.horizontal_asymptote = None
           \/ function.horizontal_asymptote.n = 0
    THEN << >>
    ELSE LET ha == function.horizontal_asymptote
         IN  << Question("horizontal_asymptote",
                   "What is the horizontal asymptote of " \o function.name \o "?",
                   << "y = " \o PyStr(ha),
                      "y = " \o PyStr(Add(ha, PyInt(1))),
                      "y = 0",
                      "No horizontal asymptote" >>,
                   "y = " \o PyStr(ha),
                   "Compare the degrees of numerator and denominator to find the horizontal asymptote.",
                   100) >>

\* lines 246-256: the horizontal asymptote question
HorizontalQuestion(function) ==
    IF function.horizontal_asymptote = None THEN << >>
    ELSE LET ha == function.horizontal_asymptote
         IN  << Question("horizontal_asymptote",
                   "What is the horizontal asymptote of " \o function.name \o "?",
                   << "y = " \o PyStr(ha),
                      "y = " \o PyStr(Add(ha, PyInt(1))),
                      "y = 0",
                      "No horizontal asymptote" >>,
                   "y = " \o PyStr(ha),
                   "Compare the degrees of numerator and denominator to find the horizontal asymptote.",
                   100) >>

\* lines 258-268: the x-intercept question
InterceptQuestion(function) ==
    IF function.x_intercepts = << >> THEN << >>
    ELSE LET xi == function.x_intercepts[1]
         IN  << Question("x_intercept",
                   "What is the x-intercept of " \o function.name \o "?",
                   << "x = " \o PyStr(xi),
                      "x = " \o PyStr(Add(xi, PyInt(1))),
                      "x = 0",
                      "No x-intercept" >>,
                   "x = " \o PyStr(xi),
                   "X-intercepts occur where the numerator equals zero.",
                   100) >>

create_questions(function) ==
    VerticalQuestion(function) \o HorizontalQuestion(function)
        \o InterceptQuestion(function)

(* ------------------------------ the session ---------------------------- *)

\* st.session_state.game_state, lines 185-199 and 592-605 (the fields the
\* handlers below read or write)
InitialGameState ==
    [player_name |-> "", current_level |-> 1, score |-> 0, lives |-> 5,
     functions_caught |-> << >>, current_function |-> None,
     current_questions |-> << >>, question_index |-> 0,
     game_started |-> FALSE]

Sample(numerator, denominator, name) ==
    [RationalFunction(numerator, denominator) EXCEPT !.name = name]

\* create_sample_functions (x^2 written for the superscript of the source)
create_sample_functions(level) ==
    IF level = 1
    THEN << Sample(<<1>>, <<1, 0>>, "f(x) = 1/x"),
            Sample(<<2>>, <<1, -1>>, "f(x) = 2/(x-1)"),
            Sample(<<1, 0>>, <<1, -2>>, "f(x) = x/(x-2)"),
            Sample(<<3>>, <<1, 1>>, "f(x) = 3/(x+1)") >>
    ELSE IF level = 2
    THEN << Sample(<<2, 0>>, <<1, -1>>, "f(x) = 2x/(x-1)"),
            Sample(<<1, -1>>, <<1, 0, -4>>, "f(x) = (x-1)/(x^2-4)"),
            Sample(<<1, 0, 1>>, <<1, 0>>, "f(x) = (x^2+1)/x") >>
    ELSE << >>

\* f.name not in functions_caught
Caught(g, function) ==
    \E i \in 1..Len(g.functions_caught) : g.functions_caught[i] = function.name

\* lines 427-429: the functions of the current level not caught yet
available_functions(g) ==
    { i \in 1..Len(create_sample_functions(g.current_level)) :
        ~Caught(g, create_sample_functions(g.current_level)[i]) }

\* lines 476-485: the question panel is shown
QuestionShown(g) ==
    /\ g.game_started
    /\ g.current_function # None
    /\ g.current_questions # << >>
    /\ g.question_index < Len(g.current_questions)

catch_function(g, function) ==
    [g EXCEPT !.current_function = function,
              !.current_questions = create_questions(function),
              !.question_index = 0,
              !.functions_caught = Append(@, function.name)]

next_question(g) ==
    IF g.question_index + 1 >= Len(g.current_questions)
    THEN [g EXCEPT !.current_function = None,
                   !.current_questions = << >>,
                   !.question_index = 0]
    ELSE [g EXCEPT !.question_index = @ + 1]

submit_answer(g, question, answer) ==
    LET is_correct == answer = question.correct_answer
        points == IF is_correct THEN question.points ELSE 0
        g1 == IF is_correct
              THEN [g EXCEPT !.score = @ + points]
              ELSE [g EXCEPT !.lives = @ - 1]
    IN  IF g1.lives <= 0 THEN g1 ELSE next_question(g1)

advance_level(g) ==
    [g EXCEPT !.current_level = @ + 1,
              !.functions_caught = << >>,
              !.current_function = None,
              !.current_questions = << >>]

reset_game(g) == InitialGameState

(* ------------------------------- inputs -------------------------------- *)

\* the sequences with first coefficient a, last coefficient b and zeros
\* between them
Padded(k, coefs) ==
    { [i \in 1..k |-> IF i = 1 THEN a ELSE IF i = k THEN b ELSE 0] :
        a \in coefs, b \in coefs }

\* every coefficient sequence of at most `full` entries, and the padded ones
\* of more: beyond `full` entries the analyzer reads the first and the last
\* coefficient only
CoefSeqs(full, maxLen, maxCoef) ==
    UNION { [1..k -> (-maxCoef)..maxCoef] : k \in 1..full }
      \cup UNION { Padded(k, (-maxCoef)..maxCoef) : k \in (full + 1)..maxLen }

\* every quotient the analyzer prints is a binary fraction, and a quadratic
\* denominator with real roots has a perfect-square discriminant
ExactInput(numerator, denominator) ==
    /\ denominator[1] = 0 \/ IsPow2(Abs(denominator[1]))
    /\ Len(numerator) = 2 => (numerator[1] = 0 \/ IsPow2(Abs(numerator[1])))
    /\ Len(denominator) = 3 =>
          LET disc == denominator[2] * denominator[2]
                        - 4 * denominator[1] * denominator[3]
          IN  disc >= 0 => IsSquare(disc)

Numerators == CoefSeqs(2, MaxNumLen, MaxNumCoef)

Denominators == CoefSeqs(3, MaxDenLen, MaxDenCoef)

NoCall == [op |-> "none"]

Init ==
    /\ \E numerator \in Numerators, denominator \in Denominators :
          /\ ExactInput(numerator, denominator)
          /\ fn = RationalFunction(numerator, denominator)
    /\ result = NoCall
    /\ out = NoCall
    /\ game = InitialGameState

\* the arguments evaluate is called with
Near(r, t) == [huge |-> FALSE, r |-> r, t |-> t]

Huge == [huge |-> TRUE, r |-> 0, t |-> 0]

Scalars == { Near(0, 0), Near(0, 1), Near(1, 0), Near(1, -1), Huge }

ListItems == { Near(1, -1), Huge }

Lists == UNION { [1..k -> ListItems] : k \in 0..MaxList }

Evaluate ==
    /\ fn.ok
    /\ \E x \in Scalars :
          result' = [op |-> "evaluate", x |-> x, ret |-> evaluate(fn, x)]
    /\ UNCHANGED <<fn, out, game>>

EvaluateList ==
    /\ fn.ok
    /\ \E xs \in Lists :
          result' = [op |-> "evaluate_list", x |-> xs,
                     ret |-> evaluate_list(fn, xs)]
    /\ UNCHANGED <<fn, out, game>>

FormatPolynomial ==
    /\ fn.ok
    /\ \E coeffs \in {fn.numerator, fn.denominator} :
          out' = [op |-> "format_polynomial", coeffs |-> coeffs,
                  ret |-> format_polynomial(coeffs)]
    /\ UNCHANGED <<fn, result, game>>

GetEquation ==
    /\ fn.ok
    /\ out' = [op |-> "get_equation", ret |-> get_equation(fn)]
    /\ UNCHANGED <<fn, result, game>>

PlotRationalFunction ==
    /\ fn.ok
    /\ out' = [op |-> "plot_rational_function",
               ret |-> plot_rational_function(fn)]
    /\ UNCHANGED <<fn, result, game>>

\* slip: function.vertical_asymptotes.sort() in place of sorted(...)
CreateQuestions_SortsInPlace ==
    /\ fn.ok
    /\ out' = [op |-> "create_questions", ret |-> create_questions(fn)]
    /\ fn' = [fn EXCEPT !.vertical_asymptotes = sorted(@)]
    /\ UNCHANGED <<result, game>>

\* catch_function, line 508: questions = create_questions(function)
CreateQuestions ==
    /\ fn.ok
    /\ out' = [op |-> "create_questions", ret |-> create_questions(fn)]
    /\ UNCHANGED <<fn, result, game>>

\* the analyzer and the quiz: every function of the bounds, analyzed at
\* construction and asked about
Next ==
    \/ CreateQuestions

Spec == Init /\ [][Next]_vars

\* the evaluator: numerators of equal coefficients 1 or -1, denominators over
\* -1, 0, 1 with a non-zero leading coefficient, under every call of the
\* interface
EvalNumerators ==
    { [i \in 1..k |-> c] : k \in 1..MaxNumLen, c \in {-1, 1} }

EvalDenominators == { d \in CoefSeqs(3, MaxDenLen, 1) : d[1] # 0 }

InitCalls ==
    /\ \E numerator \in EvalNumerators, denominator \in EvalDenominators :
          /\ ExactInput(numerator, denominator)
          /\ fn = RationalFunction(numerator, denominator)
    /\ result = NoCall
    /\ out = NoCall
    /\ game = InitialGameState

NextCalls ==
    \/ Evaluate
    \/ EvaluateList
    \/ FormatPolynomial
    \/ GetEquation
    \/ PlotRationalFunction
    \/ CreateQuestions

SpecCalls == InitCalls /\ [][NextCalls]_vars

\* the formatter: format_polynomial takes any coefficient list, the empty
\* one included, whatever function it is called on (here f(x) = 1/x, the
\* first sample function)
FormatInputs ==
    UNION { [1..k -> (-MaxFmtCoef)..MaxFmtCoef] : k \in 0..MaxFmtLen }

InitFormat ==
    /\ fn = RationalFunction(<<1>>, <<1, 0>>)
    /\ result = NoCall
    /\ \E coeffs \in FormatInputs :
          out = [op |-> "argument", coeffs |-> coeffs]
    /\ game = InitialGameState

FormatAny ==
    /\ fn.ok
    /\ out.op = "argument"
    /\ out' = [op |-> "format_polynomial", coeffs |-> out.coeffs,
               ret |-> format_polynomial(out.coeffs)]
    /\ UNCHANGED <<fn, result, game>>

NextFormat ==
    \/ FormatAny
    \/ GetEquation

SpecFormat == InitFormat /\ [][NextFormat]_vars

\* the session: the buttons of main() and the handlers they run
PlayerNames == {"Ada"}

\* lines 371-375: Start Game
StartGame ==
    /\ ~game.game_started
    /\ \E player_name \in PlayerNames :
          game' = [game EXCEPT !.player_name = player_name,
                               !.game_started = TRUE]
    /\ out' = [op |-> "start_game"]
    /\ UNCHANGED <<fn, result>>

\* lines 436-445: a Catch button of an available function
CatchFunction ==
    /\ game.game_started
    /\ \E i \in available_functions(game) :
          game' = catch_function(game,
                      create_sample_functions(game.current_level)[i])
    /\ out' = [op |-> "catch_function"]
    /\ UNCHANGED <<fn, result>>

\* lines 492-497: Submit Answer with the option chosen in the radio
SubmitAnswer ==
    /\ QuestionShown(game)
    /\ LET question == game.current_questions[game.question_index + 1]
       IN  \E k \in 1..Len(question.options) :
              LET answer == question.options[k]
                  is_correct == answer = question.correct_answer
              IN  /\ is_correct => game.score + question.points <= MaxScore
                  /\ ~is_correct => game.lives > -MaxBelowZero
                  /\ game' = submit_answer(game, question, answer)
                  /\ out' = [op |-> "submit_answer",
                             is_correct |-> is_correct,
                             points |-> question.points,
                             lives_before |-> game.lives,
                             score_before |-> game.score]
    /\ UNCHANGED <<fn, result>>

\* lines 502-503: Skip Question
NextQuestion ==
    /\ QuestionShown(game)
    /\ game' = next_question(game)
    /\ out' = [op |-> "next_question"]
    /\ UNCHANGED <<fn, result>>

\* lines 431-434: Advance to Next Level
AdvanceLevel ==
    /\ game.game_started
    /\ available_functions(game) = {}
    /\ game.current_level < MaxLevel
    /\ game' = advance_level(game)
    /\ out' = [op |-> "advance_level"]
    /\ UNCHANGED <<fn, result>>

\* lines 400-401: New Game
ResetGame ==
    /\ game.game_started
    /\ game' = reset_game(game)
    /\ out' = [op |-> "reset_game"]
    /\ UNCHANGED <<fn, result>>

InitGame ==
    /\ fn = create_sample_functions(1)[1]
    /\ result = NoCall
    /\ out = NoCall
    /\ game = InitialGameState

NextGame ==
    \/ StartGame
    \/ CatchFunction
    \/ SubmitAnswer
    \/ NextQuestion
    \/ AdvanceLevel
    \/ ResetGame

SpecGame == InitGame /\ [][NextGame]_vars

(* ------------------------------- claims -------------------------------- *)

\* the questions of the last create_questions call
Questions == IF out.op = "create_questions" THEN out.ret ELSE << >>

Occurrences(options, answer) ==
    Cardinality({ i \in 1..Len(options) : options[i] = answer })

NonDegenerate(coeffs) == \E i \in 1..Len(coeffs) : coeffs[i] # 0

\* C1: every Question returned by create_questions has its correct_answer
\* in options exactly once.
C1_CorrectAnswerOnce ==
    \A i \in 1..Len(Questions) :
        Occurrences(Questions[i].options, Questions[i].correct_answer) = 1

\* C2: every Question returned by create_questions has exactly 4 options,
\* pairwise distinct.
C2_FourDistinctOptions ==
    \A i \in 1..Len(Questions) :
        /\ Len(Questions[i].options) = 4
        /\ \A j, k \in 1..4 :
              j # k => Questions[i].options[j] # Questions[i].options[k]

\* C3: for a denominator that is not all zeros, constructing the
\* RationalFunction completes without raising an error.
C3_NoErrorEscapes ==
    NonDegenerate(fn.denominator) =>
        /\ fn.ok
        /\ fn.error = ""

\* C4: create_questions returns the questions of the properties the function
\* has, at most one per kind, in the order vertical_asymptote,
\* horizontal_asymptote, x_intercept, and nothing else (the empty sequence
\* for a function with none of them).
C4_QuestionsInOrder ==
    out.op = "create_questions" =>
        [i \in 1..Len(out.ret) |-> out.ret[i].type]
          = (IF Len(fn.vertical_asymptotes) > 0
                THEN << "vertical_asymptote" >> ELSE << >>)
            \o (IF fn.horizontal_asymptote.ty # "None"
                THEN << "horizontal_asymptote" >> ELSE << >>)
            \o (IF Len(fn.x_intercepts) > 0
                THEN << "x_intercept" >> ELSE << >>)

\* C4 witness: a function with all three properties has been asked about.
C4_Witness ==
    /\ out.op = "create_questions"
    /\ Len(out.ret) = 3

\* C5: a Question is worth 100 points, except the vertical_asymptote
\* Question of a function with two distinct vertical asymptotes, worth 150.
C5_Points ==
    \A i \in 1..Len(Questions) :
        Questions[i].points =
            IF /\ Questions[i].type = "vertical_asymptote"
               /\ Len(fn.vertical_asymptotes) = 2
               /\ \/ Less(fn.vertical_asymptotes[1], fn.vertical_asymptotes[2])
                  \/ Less(fn.vertical_asymptotes[2], fn.vertical_asymptotes[1])
            THEN 150 ELSE 100

\* C6 as stated: when vertical_asymptotes holds more than one value, the
\* values are stored in ascending order.
C6_StoredAscending ==
    (fn.ok /\ Len(fn.vertical_asymptotes) > 1) =>
        ~Less(fn.vertical_asymptotes[2], fn.vertical_asymptotes[1])

\* C6 amended: the two values are stored in the order of the quadratic
\* formula, the root with +sqrt first: first >= second when a > 0, and
\* first <= second when a < 0.
C6_StoredByFormula ==
    (fn.ok /\ Len(fn.vertical_asymptotes) > 1) =>
        /\ fn.denominator[1] > 0 =>
              ~Less(fn.vertical_asymptotes[1], fn.vertical_asymptotes[2])
        /\ fn.denominator[1] < 0 =>
              ~Less(fn.vertical_asymptotes[2], fn.vertical_asymptotes[1])

\* C6 witness: two distinct asymptotes under a positive leading coefficient,
\* stored larger first.
C6_Witness ==
    /\ fn.ok
    /\ Len(fn.vertical_asymptotes) = 2
    /\ fn.denominator[1] > 0
    /\ Less(fn.vertical_asymptotes[2], fn.vertical_asymptotes[1])

\* denominator(v) = 0 for the value v = n/d, cleared of fractions
RECURSIVE IntPow(_, _)
IntPow(b, e) == IF e = 0 THEN 1 ELSE b * IntPow(b, e - 1)

RECURSIVE ScaledPoly(_, _, _)
ScaledPoly(coeffs, v, i) ==
    IF i > Len(coeffs) THEN 0
    ELSE coeffs[i] * IntPow(v.n, Len(coeffs) - i) * IntPow(v.d, i - 1)
           + ScaledPoly(coeffs, v, i + 1)

IsRootOf(coeffs, v) == ScaledPoly(coeffs, v, 1) = 0

\* C7: find_vertical_asymptotes returns -b/a for [a, b] with a # 0; for
\* [a, b, c] with a # 0 nothing when b*b - 4ac < 0 and otherwise
\* (-b + sqrt(d))/(2a) and (-b - sqrt(d))/(2a); nothing for any other
\* denominator; and every value returned is a zero of the denominator.
C7_VerticalAsymptotes ==
      LET den == fn.denominator
          va == find_vertical_asymptotes(fn.numerator, fn.denominator)
          d == den[2] * den[2] - 4 * den[1] * den[3]
      IN  /\ fn.ok => fn.vertical_asymptotes = va
          /\ (Len(den) = 2 /\ den[1] # 0) =>
                /\ Len(va) = 1
                /\ va[1].n * den[1] = -den[2] * va[1].d
          /\ (Len(den) = 3 /\ den[1] # 0 /\ d < 0) => va = << >>
          /\ (Len(den) = 3 /\ den[1] # 0 /\ d >= 0) =>
                /\ Len(va) = 2
                /\ va[1].n * 2 * den[1] = (-den[2] + ISqrt(d)) * va[1].d
                /\ va[2].n * 2 * den[1] = (-den[2] - ISqrt(d)) * va[2].d
          /\ (Len(den) \notin {2, 3} \/ den[1] = 0) => va = << >>
          /\ \A i \in 1..Len(va) : IsRootOf(den, va[i])

\* C7 witness: a quadratic denominator with two distinct real roots.
C7_Witness ==
    /\ fn.ok
    /\ Len(fn.denominator) = 3
    /\ Len(fn.vertical_asymptotes) = 2
    /\ fn.vertical_asymptotes[1] # fn.vertical_asymptotes[2]

\* C8: with denominator[0] # 0, horizontal_asymptote is 0 when the numerator
\* has fewer coefficients than the denominator, numerator[0]/denominator[0]
\* when they have as many, and None when it has more.
C8_HorizontalAsymptote ==
    fn.denominator[1] # 0 =>
      LET ha == fn.horizontal_asymptote
      IN  /\ fn.ok
          /\ Len(fn.numerator) < Len(fn.denominator) =>
                ha.ty # "None" /\ ha.n = 0
          /\ Len(fn.numerator) = Len(fn.denominator) =>
                ha.ty # "None" /\ ha.n * fn.denominator[1] = fn.numerator[1] * ha.d
          /\ Len(fn.numerator) > Len(fn.denominator) => ha.ty = "None"

\* C8 witness: equal degrees with a non-zero ratio of leading coefficients.
C8_Witness ==
    /\ fn.ok
    /\ Len(fn.numerator) = Len(fn.denominator)
    /\ fn.horizontal_asymptote.ty = "float"
    /\ fn.horizontal_asymptote.n # 0

\* C9: evaluate(x) for a scalar finite x never raises; when the denominator
\* value is below 1e-10 in absolute value the result is +infinity for a
\* positive and -infinity for a negative denominator value, an infinite
\* sentinel at an exact root, and otherwise numerator value over denominator
\* value; for a list of x the result is the list of the results, in order.
C9_EvaluateNeverRaises ==
    /\ result.op = "evaluate" =>
          /\ result.ret.kind # "raise"
          /\ ~(PowOverflows(fn.numerator, result.x)
                 \/ PowOverflows(fn.denominator, result.x)) =>
                LET num_val == PolyVal(fn.numerator, result.x)
                    den_val == PolyVal(fn.denominator, result.x)
                IN  /\ (BelowThreshold(den_val) /\ Sign(den_val) > 0) =>
                          result.ret.kind = "inf"
                    /\ (BelowThreshold(den_val) /\ Sign(den_val) < 0) =>
                          result.ret.kind = "-inf"
                    /\ BelowThreshold(den_val) =>
                          result.ret.kind \in {"inf", "-inf"}
                    /\ ~BelowThreshold(den_val) =>
                          /\ result.ret.kind = "value"
                          /\ \A i, j \in Orders :
                                result.ret.num[i] * den_val[j]
                                  = num_val[i] * result.ret.den[j]
    /\ result.op = "evaluate_list" =>
          /\ result.ret.kind = "list"
          /\ Len(result.ret.items) = Len(result.x)
          /\ \A i \in 1..Len(result.x) :
                result.ret.items[i] = evaluate(fn, result.x[i])

\* C10: no call of evaluate, format_polynomial, get_equation,
\* create_questions or plot_rational_function changes the numerator, the
\* denominator or a derived field, which stay what the analyzer computes
\* from numerator and denominator; and a value evaluate returned for x is
\* the value it returns for x after any of these calls.
C10_Frame ==
    [][ /\ fn' = fn
        /\ fn' = RationalFunction(fn'.numerator, fn'.denominator)
        /\ result'.op = "evaluate" =>
              result'.ret = evaluate(fn', result'.x)
        /\ (result.op = "evaluate" /\ result'.op = "evaluate"
              /\ result'.x = result.x) => result'.ret = result.ret ]_vars

\* C10 witness: evaluate has returned a value, create_questions has run
\* since construction, and the function has two vertical asymptotes.
C10_Witness ==
    /\ result.op = "evaluate"
    /\ result.ret.kind = "value"
    /\ out.op = "create_questions"
    /\ Len(fn.vertical_asymptotes) = 2

\* the text the claim describes for the coefficient at index i: the
\* separator (a bare sign for the first term), the numeral unless it is 1
\* on a power of x, and the power of x
Piece(coeffs, i, first) ==
    LET c == coeffs[i]
        power == Len(coeffs) - i
    IN  (IF first THEN (IF c < 0 THEN "-" ELSE "")
         ELSE (IF c < 0 THEN " - " ELSE " + "))
        \o (IF Abs(c) = 1 /\ power >= 1 THEN "" ELSE ToString(Abs(c)))
        \o (IF power = 0 THEN ""
            ELSE IF power = 1 THEN "x"
            ELSE "x^" \o ToString(power))

\* the pieces of the non-zero coefficients from index i on, in order
RECURSIVE Pieces(_, _, _)
Pieces(coeffs, i, first) ==
    IF i > Len(coeffs) THEN ""
    ELSE IF coeffs[i] = 0 THEN Pieces(coeffs, i + 1, first)
    ELSE Piece(coeffs, i, first) \o Pieces(coeffs, i + 1, FALSE)

\* C11: format_polynomial emits one term per non-zero coefficient and none
\* for a zero one, in descending degree, joined by " + " before a positive
\* and " - " (then the term without its sign) before a negative term, with
\* the numeral omitted for a coefficient 1 or -1 on a power of x; the result
\* is "0" exactly when all coefficients are zero or there are none.
C11_FormatPolynomial ==
    out.op = "format_polynomial" =>
        /\ (\A i \in 1..Len(out.coeffs) : out.coeffs[i] = 0) <=> out.ret = "0"
        /\ (\E i \in 1..Len(out.coeffs) : out.coeffs[i] # 0) =>
              out.ret = Pieces(out.coeffs, 1, TRUE)
        /\ out.coeffs = <<1, 0, 1>> => out.ret = "x^2 + 1"
        /\ out.coeffs = <<1, -1>> => out.ret = "x - 1"
        /\ out.coeffs = <<0, 0>> => out.ret = "0"

\* C11 witness: a negative term after the first one has been formatted.
C11_Witness ==
    /\ out.op = "format_polynomial"
    /\ out.coeffs = <<1, -1>>
    /\ out.ret = "x - 1"

\* C12: lives stays within 0..5; a wrong answer lowers lives by exactly 1
\* and leaves score unchanged, a correct one raises score by the question's
\* points and leaves lives unchanged, and a submit_answer at lives 0 (game
\* over) changes neither lives nor score.
C12_LivesAndScore ==
    /\ game.lives \in 0..5
    /\ out.op = "submit_answer" =>
          /\ out.lives_before = 0 =>
                (game.lives = out.lives_before /\ game.score = out.score_before)
          /\ (out.lives_before > 0 /\ ~out.is_correct) =>
                (game.lives = out.lives_before - 1
                   /\ game.score = out.score_before)
          /\ (out.lives_before > 0 /\ out.is_correct) =>
                (game.score = out.score_before + out.points
                   /\ game.lives = out.lives_before)

====
